---- MODULE Spec2Model ----
(***************************************************************************)
(* Model of the resync and webhook handlers of the GitLab, PagerDuty and   *)
(* Wiz integrations.                                                       *)
(*                                                                         *)
(*   Spec         the GitLab project resync generator (on_resync), one     *)
(*                step per suspension point, enrichment calls of one       *)
(*                asyncio.gather completing in any order.                  *)
(*   SpecWebhook  the PagerDuty and Wiz webhook endpoints.                 *)
(***************************************************************************)
EXTENDS Integers, Sequences, FiniteSets, TLC

\* ------------------------------------------------------------------ bounds
MaxPages == 2
MaxExtra == 2

\* ------------------------------------------------------- program constants
PROJECT_RESYNC_BATCH_SIZE == 10

VARIABLES
    services,      \* get_cached_all_services(): per service, the pages of get_all_projects()
    pc,            \* position of the on_resync generator
    svc,           \* index of the service of the for loop (line 79)
    page,          \* index of the page of the async for loop (line 82)
    pos,           \* records of the page already consumed from projects_batch_iter
    projects_batch,\* the tuple islice produced (line 88)
    inflight,      \* ids whose enrich_project_with_extras call started and has not completed
    results,       \* result slots of asyncio.gather, by task position
    completed,     \* number of tasks of the current gather that completed
    reverseOrder,  \* the tasks of the current gather completed last-to-first so far
    emitted,       \* batches yielded so far, in order
    failedRec,     \* id of the record whose enrichment raised, 0 if none
    failedBatch,   \* the projects_batch whose gather raised
    raised,        \* the generator raised to its caller
    \* ---- webhook endpoints
    service_delete_events,   \* pager_duty_client.service_delete_events
    incident_upsert_events,  \* pager_duty_client.incident_upsert_events
    service_upsert_events,   \* pager_duty_client.service_upsert_events
    upstream,      \* ids of the records the provider still has
    endpoint,      \* the endpoint handling a request: "pagerduty", "wiz" or "none"
    data,          \* the request body
    token,         \* the bearer token of the request (Wiz)
    wpc,           \* position of the webhook handler
    wiz_client,    \* init_client() was called by the handler
    response,      \* what the single-record fetch returned
    fetchLog,      \* single-record fetches the handler started, in order
    sinkLog,       \* register_raw / unregister_raw calls of the handler, in order
    status         \* HTTP status of the answer, 0 while there is none

gitlabVars == <<services, pc, svc, page, pos, projects_batch, inflight, results,
                completed, reverseOrder, emitted, failedRec, failedBatch, raised>>

webhookVars == <<service_delete_events, incident_upsert_events, service_upsert_events,
                 upstream, endpoint, data, token, wpc, wiz_client, response,
                 fetchLog, sinkLog, status>>

\* ---- merge-request resync, run twice
VARIABLES
    mr_services,   \* get_cached_all_services(): per service, the root groups
    now,           \* datetime.now(), in days
    ticks,         \* days that passed since the first pass started
    updated_after, \* updated_after of each pass (line 126), 0 before it is computed
    mr_pass,       \* 1 or 2: which pass of resync_merge_requests runs
    mr_pc,         \* position of the resync_merge_requests generator
    mr_svc,        \* index of the service of the for loop (line 128)
    mr_grp,        \* index of the group of the for loop (line 129)
    mr_page,       \* pages of the current async for consumed so far
    mr_fetched,    \* pages fetched by the current pass
    mr_emitted,    \* batches yielded by each pass, in order
    mr_fetchFailed,\* a page fetch of the current pass raised
    mr_raised      \* the generator raised to its caller

mrVars == <<mr_services, now, ticks, updated_after, mr_pass, mr_pc, mr_svc, mr_grp,
            mr_page, mr_fetched, mr_emitted, mr_fetchFailed, mr_raised>>

\* no merge-request pass runs
MROff ==
    /\ mr_services = <<>>
    /\ now = 0
    /\ ticks = 0
    /\ updated_after = <<0, 0>>
    /\ mr_pass = 0
    /\ mr_pc = "off"
    /\ mr_svc = 0
    /\ mr_grp = 0
    /\ mr_page = 0
    /\ mr_fetched = 0
    /\ mr_emitted = << <<>>, <<>> >>
    /\ mr_fetchFailed = FALSE
    /\ mr_raised = FALSE

\* ---- start-up and the GitLab system hook
VARIABLES
    provider,             \* the integration that is started
    event_listener_type,  \* ocean.event_listener_type
    app_host,             \* ocean.integration_config.get("app_host")
    start_pc,             \* position of on_start
    setup_calls,          \* calls of the webhook setup made by on_start
    warnings,             \* logger.warning calls of on_start
    hook_body,            \* body of the system hook request being handled
    hook_pc,              \* position of handle_system_webhook
    notified,             \* calls of system_event_handler.notify
    hook_status           \* HTTP status answered to the system hook request

appVars == <<provider, event_listener_type, app_host, start_pc, setup_calls, warnings,
             hook_body, hook_pc, notified, hook_status>>

\* no integration is started
AppOff ==
    /\ provider = "none" /\ event_listener_type = "none" /\ app_host = "none"
    /\ start_pc = "off" /\ setup_calls = 0 /\ warnings = 0
    /\ hook_body = <<>> /\ hook_pc = "off" /\ notified = <<>> /\ hook_status = 0

\* ---- cancellation of the project resync
VARIABLES
    cancelled_batch,      \* projects_batch of the gather that was cancelled
    cancelled_done        \* enrichment calls of it that had returned

cancelVars == <<cancelled_batch, cancelled_done>>

\* the project resync has not been cancelled
CancelOff == cancelled_batch = <<>> /\ cancelled_done = 0

\* ---- Wiz resync
VARIABLES
    wiz_kind,             \* kind argument of on_resync
    wiz_projects,         \* pages of wiz_client.get_projects()
    wiz_issues,           \* pages of wiz_client.get_issues()
    wiz_pc,               \* position of the on_resync generator
    wiz_cursor,           \* pages the async for has gone through
    wiz_emitted           \* batches yielded

wizVars == <<wiz_kind, wiz_projects, wiz_issues, wiz_pc, wiz_cursor, wiz_emitted>>

\* no Wiz resync runs
WizOff ==
    /\ wiz_kind = "none" /\ wiz_projects = <<>> /\ wiz_issues = <<>>
    /\ wiz_pc = "off" /\ wiz_cursor = 0 /\ wiz_emitted = <<>>

\* ---- a Wiz issue resync with webhooks arriving meanwhile
VARIABLES
    race_pages,           \* issue ids of every page of get_issues()
    version,              \* version of every issue at the provider
    clock,                \* reads of the provider made so far
    race_pc,              \* position of the on_resync generator
    race_cursor,          \* pages the async for has gone through
    snapshot,             \* the page the generator has fetched and yielded
    snapshot_at,          \* clock of that fetch
    race_emitted,         \* batches the pass has handed to the sink
    events,               \* webhook requests received
    ev_pc,                \* position of handle_webhook_request
    ev_id,                \* data["issue"]["id"] of the request
    ev_issue,             \* issue returned by get_single_issue
    ev_at,                \* clock of that fetch
    ev_calls,             \* sink calls of the request being handled
    sink,                 \* version of every issue in the sink, 0 when not there
    writes                \* writes to the sink, in order

raceVars == <<race_pages, version, clock, race_pc, race_cursor, snapshot, snapshot_at,
              race_emitted, events, ev_pc, ev_id, ev_issue, ev_at, ev_calls, sink, writes>>

\* no such run
RaceOff ==
    /\ race_pages = <<>> /\ version = <<>> /\ clock = 0 /\ race_pc = "off"
    /\ race_cursor = 0 /\ snapshot = <<>> /\ snapshot_at = 0 /\ race_emitted = <<>>
    /\ events = 0 /\ ev_pc = "off" /\ ev_id = 0 /\ ev_issue = <<>> /\ ev_at = 0
    /\ ev_calls = <<>> /\ sink = <<>> /\ writes = <<>>

\* the state of the handlers modelled further down
otherVars == <<mrVars, appVars, cancelVars, wizVars, raceVars>>

OthersOff == MROff /\ AppOff /\ CancelOff /\ WizOff /\ RaceOff

vars == <<gitlabVars, webhookVars, otherVars>>

\* ------------------------------------------------------------ the fixture
Min(a, b) == IF a < b THEN a ELSE b

RECURSIVE SumSeq(_)
SumSeq(q) == IF q = <<>> THEN 0 ELSE Head(q) + SumSeq(Tail(q))

PageSizes == {0, 2, PROJECT_RESYNC_BATCH_SIZE + MaxExtra}

PageSeqs == UNION {[1..n -> PageSizes] : n \in 1..MaxPages}

TotalPages(layout) == SumSeq([s \in 1..Len(layout) |-> Len(layout[s])])

\* the page sizes of every service of a fixture of at most MaxPages pages: one
\* service without any page, or services of at least one page each
Layouts ==
    {<< <<>> >>} \cup
    {l \in UNION {[1..n -> PageSeqs] : n \in 1..MaxPages} :
        TotalPages(l) <= MaxPages}

\* records before page p of service s, in pagination order
Before(layout, s, p) ==
    SumSeq([i \in 1..(s - 1) |-> SumSeq(layout[i])]) + SumSeq(SubSeq(layout[s], 1, p - 1))

\* project ids 1..M handed out in pagination order
Fixture(layout) ==
    [s \in 1..Len(layout) |->
        [p \in 1..Len(layout[s]) |->
            [k \in 1..layout[s][p] |-> Before(layout, s, p) + k]]]

RECURSIVE Concat(_)
Concat(qq) == IF qq = <<>> THEN <<>> ELSE Head(qq) \o Concat(Tail(qq))

\* all project ids of the fixture in pagination order
AllProjects == Concat([s \in 1..Len(services) |-> Concat(services[s])])

\* ------------------------------------------------------------- enrichment
NoResult == [id |-> 0, extras |-> FALSE]

\* service.enrich_project_with_extras(project): adds extras, keeps the identity
enrich_project_with_extras(project) == [id |-> project, extras |-> TRUE]

\* islice that loses the first record it is asked for
islice_skipping(projects, done) ==
    SubSeq(projects, done + 2, Min(done + 1 + PROJECT_RESYNC_BATCH_SIZE, Len(projects)))

\* islice that takes one record more than the batch size
islice_oversized(projects, done) ==
    SubSeq(projects, done + 1, Min(done + PROJECT_RESYNC_BATCH_SIZE + 1, Len(projects)))

\* islice(projects_batch_iter, PROJECT_RESYNC_BATCH_SIZE) on a page with `done` consumed
islice(projects, done) ==
    SubSeq(projects, done + 1, Min(done + PROJECT_RESYNC_BATCH_SIZE, Len(projects)))

\* a gather that collects results in completion order
gather_store_as_completed(res, i, k, value) == [res EXCEPT ![k + 1] = value]

\* asyncio.gather stores a result in the slot of the task's position i; k is the
\* number of tasks that completed before it
gather_store(res, i, k, value) == [res EXCEPT ![i] = value]

\* an await that resumes as soon as one awaited call has returned
gather_returned_first(batch, running) ==
    \E i \in 1..Len(batch) : batch[i] \notin running

\* await asyncio.gather(*tasks) resumes once every awaited call has returned
gather_returned(batch, running) ==
    \A i \in 1..Len(batch) : batch[i] \notin running

\* ------------------------------------------------------- webhook payloads
EventTypes == {"incident.triggered", "service.updated", "service.deleted"}

\* what a Wiz body says triggered it, a field the handler never reads
WizTriggers == {"issue", "other"}

Ids == {7, 42}

wiz_webhook_verification_token == "secret"

Tokens == {"secret", "wrong"}

NoPayload ==
    [hasEvent |-> FALSE, hasType |-> FALSE, event_type |-> "", hasData |-> FALSE,
     hasId |-> FALSE, id |-> 0]

\* bodies of the PagerDuty endpoint: event, event.event_type, event.data and
\* event.data.id are each present or missing
PagerDutyPayloads ==
    {NoPayload}
    \cup {[hasEvent |-> TRUE, hasType |-> FALSE, event_type |-> "", hasData |-> TRUE,
           hasId |-> TRUE, id |-> i] : i \in Ids}
    \cup {[hasEvent |-> TRUE, hasType |-> TRUE, event_type |-> t, hasData |-> d,
           hasId |-> FALSE, id |-> 0] : t \in EventTypes, d \in BOOLEAN}
    \cup {[hasEvent |-> TRUE, hasType |-> TRUE, event_type |-> t, hasData |-> TRUE,
           hasId |-> TRUE, id |-> i] : t \in EventTypes, i \in Ids}

\* bodies of the Wiz endpoint: issue and issue.id are each present or missing
WizPayloads ==
    {[hasIssue |-> h, hasId |-> FALSE, id |-> 0, trigger |-> e] :
        h \in BOOLEAN, e \in WizTriggers}
    \cup {[hasIssue |-> TRUE, hasId |-> TRUE, id |-> i, trigger |-> e] :
        i \in Ids, e \in WizTriggers}

\* data["event"]["data"]: the record as the webhook body carries it
EmbeddedData(body) == [id |-> body.id, fields |-> "payload"]

\* the record as the provider serves it to a single-record fetch
LiveRecord(id) == [id |-> id, fields |-> "live"]

NullRecord == [id |-> 0, fields |-> "null"]

NoResponse == [found |-> FALSE, record |-> NullRecord]

\* what a single-record fetch of a record the provider no longer has may do
NotFoundOutcomes == {"raises", "no_record"}

\* pager_duty_client.get_singular_from_pager_duty / wiz_client.get_single_issue
\* of a record the provider has
get_singular(id) == [found |-> TRUE, record |-> LiveRecord(id)]

\* a dispatch that tests the upsert sets before the delete set
route_upsert_first(event_type) ==
    IF event_type \in incident_upsert_events THEN "incident_upsert"
    ELSE IF event_type \in service_upsert_events THEN "service_upsert"
    ELSE IF event_type \in service_delete_events THEN "delete"
    ELSE "ignore"

\* the if / elif / elif of upsert_incident_webhook_handler
route(event_type) ==
    IF event_type \in service_delete_events THEN "delete"
    ELSE IF event_type \in incident_upsert_events THEN "incident_upsert"
    ELSE IF event_type \in service_upsert_events THEN "service_upsert"
    ELSE "ignore"

\* a handler that hands the webhook body's record to the sink
register_raw_records_from_body(resp, body) == <<EmbeddedData(body)>>

\* the list passed to ocean.register_raw: the fetched record
register_raw_records(resp, body) == <<resp.record>>

\* ---------------------------------------------------------------- actions
\* no webhook request is handled
WebhookOff ==
    /\ service_delete_events = {}
    /\ incident_upsert_events = {}
    /\ service_upsert_events = {}
    /\ upstream = {}
    /\ endpoint = "none"
    /\ data = NoPayload
    /\ token = ""
    /\ wpc = "off"
    /\ wiz_client = FALSE
    /\ response = NoResponse
    /\ fetchLog = <<>>
    /\ sinkLog = <<>>
    /\ status = 0

Init ==
    /\ WebhookOff
    /\ OthersOff
    /\ services \in {Fixture(l) : l \in Layouts}
    /\ pc = "service_loop"
    /\ svc = 0
    /\ page = 0
    /\ pos = 0
    /\ projects_batch = <<>>
    /\ inflight = {}
    /\ results = <<>>
    /\ completed = 0
    /\ reverseOrder = TRUE
    /\ emitted = <<>>
    /\ failedRec = 0
    /\ failedBatch = <<>>
    /\ raised = FALSE

\* line 79: for service in get_cached_all_services()
NextService ==
    /\ pc = "service_loop"
    /\ IF svc < Len(services)
       THEN /\ svc' = svc + 1
            /\ page' = 0
            /\ pc' = "page_loop"
       ELSE /\ pc' = "done"
            /\ UNCHANGED <<svc, page>>
    /\ UNCHANGED <<services, pos, projects_batch, inflight, results, completed,
                   reverseOrder, emitted, failedRec, failedBatch, raised>>
    /\ UNCHANGED <<webhookVars, otherVars>>

\* line 82: async for projects in service.get_all_projects(); line 86-87
NextPage ==
    /\ pc = "page_loop"
    /\ IF page < Len(services[svc])
       THEN /\ page' = page + 1
            /\ pos' = 0
            /\ pc' = "batch_loop"
       ELSE /\ pc' = "service_loop"
            /\ UNCHANGED <<page, pos>>
    /\ UNCHANGED <<services, svc, projects_batch, inflight, results, completed,
                   reverseOrder, emitted, failedRec, failedBatch, raised>>
    /\ UNCHANGED <<webhookVars, otherVars>>

\* lines 88-98: take the next projects_batch; when it is not empty create one
\* enrichment task per project and await their gather
NextBatch ==
    /\ pc = "batch_loop"
    /\ LET batch == islice(services[svc][page], pos)
       IN IF batch = <<>>
          THEN /\ pc' = "page_loop"
               /\ UNCHANGED <<pos, projects_batch, inflight, results, completed,
                              reverseOrder>>
          ELSE /\ projects_batch' = batch
               /\ pos' = pos + Len(batch)
               /\ inflight' = inflight \cup {batch[i] : i \in 1..Len(batch)}
               /\ results' = [i \in 1..Len(batch) |-> NoResult]
               /\ completed' = 0
               /\ reverseOrder' = TRUE
               /\ pc' = "gather"
    /\ UNCHANGED <<services, svc, page, emitted, failedRec, failedBatch, raised>>
    /\ UNCHANGED <<webhookVars, otherVars>>

\* one enrich_project_with_extras call of the awaited gather returns
EnrichDone(i) ==
    /\ pc = "gather"
    /\ i \in 1..Len(projects_batch)
    /\ projects_batch[i] \in inflight
    /\ inflight' = inflight \ {projects_batch[i]}
    /\ results' = gather_store(results, i, completed,
                               enrich_project_with_extras(projects_batch[i]))
    /\ completed' = completed + 1
    /\ reverseOrder' = (reverseOrder /\ \A j \in (i + 1)..Len(projects_batch) :
                                            projects_batch[j] \notin inflight)
    /\ UNCHANGED <<services, pc, svc, page, pos, projects_batch, emitted,
                   failedRec, failedBatch, raised>>
    /\ UNCHANGED <<webhookVars, otherVars>>

\* a gather that keeps the failure as a result instead of raising it
EnrichFail_swallowed(i) ==
    /\ pc = "gather"
    /\ i \in 1..Len(projects_batch)
    /\ projects_batch[i] \in inflight
    /\ inflight' = inflight \ {projects_batch[i]}
    /\ failedRec' = projects_batch[i]
    /\ failedBatch' = projects_batch
    /\ completed' = completed + 1
    /\ UNCHANGED <<services, pc, svc, page, pos, projects_batch, results, reverseOrder,
                   emitted, raised>>
    /\ UNCHANGED <<webhookVars, otherVars>>

\* one enrich_project_with_extras call of the awaited gather raises: gather
\* propagates the first exception to the generator, which raises to its caller;
\* the other calls are not cancelled
EnrichFail(i) ==
    /\ pc = "gather"
    /\ i \in 1..Len(projects_batch)
    /\ projects_batch[i] \in inflight
    /\ inflight' = inflight \ {projects_batch[i]}
    /\ failedRec' = projects_batch[i]
    /\ failedBatch' = projects_batch
    /\ results' = <<>>
    /\ completed' = 0
    /\ raised' = TRUE
    /\ pc' = "failed"
    /\ UNCHANGED <<services, svc, page, pos, projects_batch, reverseOrder, emitted>>
    /\ UNCHANGED <<webhookVars, otherVars>>

\* a call left running by a gather that raised ends; nobody reads its outcome
OrphanDone(p) ==
    /\ pc = "failed"
    /\ p \in inflight
    /\ inflight' = inflight \ {p}
    /\ UNCHANGED <<services, pc, svc, page, pos, projects_batch, results, completed,
                   reverseOrder, emitted, failedRec, failedBatch, raised>>
    /\ UNCHANGED <<webhookVars, otherVars>>

\* lines 98-102: the gather returned every result; yield enriched_projects
YieldBatch ==
    /\ pc = "gather"
    /\ gather_returned(projects_batch, inflight)
    /\ emitted' = Append(emitted, results)
    /\ pc' = "batch_loop"
    /\ UNCHANGED <<services, svc, page, pos, projects_batch, inflight, results,
                   completed, reverseOrder, failedRec, failedBatch, raised>>
    /\ UNCHANGED <<webhookVars, otherVars>>



Next ==
    \/ NextService
    \/ NextPage
    \/ NextBatch
    \/ \E i \in 1..PROJECT_RESYNC_BATCH_SIZE + MaxExtra : EnrichDone(i)
    \/ \E i \in 1..PROJECT_RESYNC_BATCH_SIZE + MaxExtra : EnrichFail(i)
    \/ \E p \in inflight : OrphanDone(p)
    \/ YieldBatch

Spec == Init /\ [][Next]_vars

\* ------------------------------------------------------ webhook endpoints
GitlabOff ==
    /\ services = <<>>
    /\ pc = "off"
    /\ svc = 0
    /\ page = 0
    /\ pos = 0
    /\ projects_batch = <<>>
    /\ inflight = {}
    /\ results = <<>>
    /\ completed = 0
    /\ reverseOrder = TRUE
    /\ emitted = <<>>
    /\ failedRec = 0
    /\ failedBatch = <<>>
    /\ raised = FALSE

InitWebhook ==
    /\ GitlabOff
    /\ OthersOff
    /\ service_delete_events \in SUBSET EventTypes
    /\ incident_upsert_events \in SUBSET EventTypes
    /\ service_upsert_events \in SUBSET EventTypes
    /\ upstream \in SUBSET Ids
    /\ endpoint = "none"
    /\ data = NoPayload
    /\ token = ""
    /\ wpc = "idle"
    /\ wiz_client = FALSE
    /\ response = NoResponse
    /\ fetchLog = <<>>
    /\ sinkLog = <<>>
    /\ status = 0

clientVars == <<service_delete_events, incident_upsert_events, service_upsert_events,
                upstream>>

\* POST /webhook of the PagerDuty integration arrives
PagerDutyRequest(body) ==
    /\ wpc \in {"idle", "returned", "raised"}
    /\ endpoint' = "pagerduty"
    /\ data' = body
    /\ token' = ""
    /\ wpc' = "dispatch"
    /\ wiz_client' = FALSE
    /\ response' = NoResponse
    /\ fetchLog' = <<>>
    /\ sinkLog' = <<>>
    /\ status' = 0
    /\ UNCHANGED clientVars
    /\ UNCHANGED <<gitlabVars, otherVars>>

\* lines 39-49 and 52-56: log the event type, pick the branch; the delete branch
\* unregisters the embedded data, an upsert branch reads data.id and starts the
\* fetch; a missing key raises KeyError, answered with 500
upsert_incident_webhook_handler ==
    /\ endpoint = "pagerduty"
    /\ wpc = "dispatch"
    /\ IF ~data.hasEvent \/ ~data.hasType
       THEN /\ wpc' = "raised"
            /\ status' = 500
            /\ UNCHANGED <<fetchLog, sinkLog>>
       ELSE LET branch == route(data.event_type)
            IN CASE branch = "delete" ->
                      IF ~data.hasData
                      THEN /\ wpc' = "raised"
                           /\ status' = 500
                           /\ UNCHANGED <<fetchLog, sinkLog>>
                      ELSE /\ sinkLog' = Append(sinkLog,
                                  [op |-> "unregister_raw", kind |-> "services",
                                   records |-> <<EmbeddedData(data)>>])
                           /\ wpc' = "returned"
                           /\ status' = 200
                           /\ UNCHANGED fetchLog
                 [] branch \in {"incident_upsert", "service_upsert"} ->
                      IF ~data.hasData \/ ~data.hasId
                      THEN /\ wpc' = "raised"
                           /\ status' = 500
                           /\ UNCHANGED <<fetchLog, sinkLog>>
                      ELSE /\ fetchLog' = Append(fetchLog,
                                  [kind |-> IF branch = "incident_upsert"
                                            THEN "incidents" ELSE "services",
                                   id |-> data.id])
                           /\ wpc' = "fetching"
                           /\ UNCHANGED <<sinkLog, status>>
                 [] OTHER ->
                      /\ wpc' = "returned"
                      /\ status' = 200
                      /\ UNCHANGED <<fetchLog, sinkLog>>
    /\ UNCHANGED <<endpoint, data, token, wiz_client, response>>
    /\ UNCHANGED clientVars
    /\ UNCHANGED <<gitlabVars, otherVars>>

\* lines 47-49 and 54-56: get_singular_from_pager_duty returns or raises
get_singular_from_pager_duty ==
    /\ endpoint = "pagerduty"
    /\ wpc = "fetching"
    /\ LET id == fetchLog[Len(fetchLog)].id
       IN IF id \in upstream
          THEN /\ response' = get_singular(id)
               /\ wpc' = "register"
               /\ UNCHANGED status
          ELSE \E outcome \in NotFoundOutcomes :
                  IF outcome = "raises"
                  THEN /\ wpc' = "raised"
                       /\ status' = 500
                       /\ UNCHANGED response
                  ELSE /\ response' = NoResponse
                       /\ wpc' = "register"
                       /\ UNCHANGED status
    /\ UNCHANGED <<endpoint, data, token, wiz_client, fetchLog, sinkLog>>
    /\ UNCHANGED clientVars
    /\ UNCHANGED <<gitlabVars, otherVars>>

\* lines 50 and 58: register_raw of response["incident"] / response["service"];
\* a response without that key raises KeyError
pagerduty_register_raw ==
    /\ endpoint = "pagerduty"
    /\ wpc = "register"
    /\ IF ~response.found
       THEN /\ wpc' = "raised"
            /\ status' = 500
            /\ UNCHANGED sinkLog
       ELSE /\ sinkLog' = Append(sinkLog,
                   [op |-> "register_raw", kind |-> fetchLog[Len(fetchLog)].kind,
                    records |-> register_raw_records(response, data)])
            /\ wpc' = "returned"
            /\ status' = 200
    /\ UNCHANGED <<endpoint, data, token, wiz_client, response, fetchLog>>
    /\ UNCHANGED clientVars
    /\ UNCHANGED <<gitlabVars, otherVars>>

\* POST /webhook of the Wiz integration arrives
WizRequest(body, bearer) ==
    /\ wpc \in {"idle", "returned", "raised"}
    /\ endpoint' = "wiz"
    /\ data' = body
    /\ token' = bearer
    /\ wpc' = "dispatch"
    /\ wiz_client' = FALSE
    /\ response' = NoResponse
    /\ fetchLog' = <<>>
    /\ sinkLog' = <<>>
    /\ status' = 0
    /\ UNCHANGED clientVars
    /\ UNCHANGED <<gitlabVars, otherVars>>

\* a handler that goes on to the fetch without looking at the token
handle_webhook_request_unchecked ==
    /\ endpoint = "wiz"
    /\ wpc = "dispatch"
    /\ wiz_client' = TRUE
    /\ IF ~data.hasIssue \/ ~data.hasId
       THEN /\ wpc' = "raised"
            /\ status' = 500
            /\ UNCHANGED fetchLog
       ELSE /\ fetchLog' = Append(fetchLog, [kind |-> "issue", id |-> data.id])
            /\ wpc' = "fetching"
            /\ UNCHANGED status
    /\ UNCHANGED <<endpoint, data, token, response, sinkLog>>
    /\ UNCHANGED clientVars
    /\ UNCHANGED <<gitlabVars, otherVars>>

\* lines 60-72: reject a wrong token with 401, create the client, read
\* data["issue"]["id"] (KeyError when missing) and start get_single_issue
handle_webhook_request ==
    /\ endpoint = "wiz"
    /\ wpc = "dispatch"
    /\ IF wiz_webhook_verification_token # token
       THEN /\ wpc' = "raised"
            /\ status' = 401
            /\ UNCHANGED <<wiz_client, fetchLog>>
       ELSE /\ wiz_client' = TRUE
            /\ IF ~data.hasIssue \/ ~data.hasId
               THEN /\ wpc' = "raised"
                    /\ status' = 500
                    /\ UNCHANGED fetchLog
               ELSE /\ fetchLog' = Append(fetchLog, [kind |-> "issue", id |-> data.id])
                    /\ wpc' = "fetching"
                    /\ UNCHANGED status
    /\ UNCHANGED <<endpoint, data, token, response, sinkLog>>
    /\ UNCHANGED clientVars
    /\ UNCHANGED <<gitlabVars, otherVars>>

\* line 72: get_single_issue returns or raises
get_single_issue ==
    /\ endpoint = "wiz"
    /\ wpc = "fetching"
    /\ LET id == fetchLog[Len(fetchLog)].id
       IN IF id \in upstream
          THEN /\ response' = get_singular(id)
               /\ wpc' = "register"
               /\ UNCHANGED status
          ELSE \E outcome \in NotFoundOutcomes :
                  IF outcome = "raises"
                  THEN /\ wpc' = "raised"
                       /\ status' = 500
                       /\ UNCHANGED response
                  ELSE /\ response' = NoResponse
                       /\ wpc' = "register"
                       /\ UNCHANGED status
    /\ UNCHANGED <<endpoint, data, token, wiz_client, fetchLog, sinkLog>>
    /\ UNCHANGED clientVars
    /\ UNCHANGED <<gitlabVars, otherVars>>

\* lines 73-75: register_raw of the issue, whatever was returned; answer ok
wiz_register_raw ==
    /\ endpoint = "wiz"
    /\ wpc = "register"
    /\ sinkLog' = Append(sinkLog,
           [op |-> "register_raw", kind |-> "issue",
            records |-> register_raw_records(response, data)])
    /\ wpc' = "returned"
    /\ status' = 200
    /\ UNCHANGED <<endpoint, data, token, wiz_client, response, fetchLog>>
    /\ UNCHANGED clientVars
    /\ UNCHANGED <<gitlabVars, otherVars>>

NextWebhook ==
    \/ \E body \in PagerDutyPayloads : PagerDutyRequest(body)
    \/ upsert_incident_webhook_handler
    \/ get_singular_from_pager_duty
    \/ pagerduty_register_raw
    \/ \E body \in WizPayloads, bearer \in Tokens : WizRequest(body, bearer)
    \/ handle_webhook_request
    \/ get_single_issue
    \/ wiz_register_raw

SpecWebhook == InitWebhook /\ [][NextWebhook]_vars

\* ------------------------------------------------- GitLab project resync
IdsOf(batch) == [i \in 1..Len(batch) |-> batch[i].id]

EmittedIds == IdsOf(Concat(emitted))

IsPrefix(a, b) == Len(a) <= Len(b) /\ a = SubSeq(b, 1, Len(a))

PagesIdx == UNION {{<<s, p>> : p \in 1..Len(services[s])} : s \in 1..Len(services)}

InPage(sp, id) ==
    \E k \in 1..Len(services[sp[1]][sp[2]]) : services[sp[1]][sp[2]][k] = id

SamePage(a, b) == \E sp \in PagesIdx : InPage(sp, a) /\ InPage(sp, b)

LastOfPage(id) ==
    \E sp \in PagesIdx :
        LET projects == services[sp[1]][sp[2]]
        IN projects # <<>> /\ projects[Len(projects)] = id

\* C1: the ids of the emitted batches, concatenated, are at every moment a prefix
\* of the project ids in pagination order (services, pages, records in order),
\* and when the pass ends without a failed enrichment they are exactly the
\* project ids, each once.
C1_NoLossNoDuplication ==
    /\ IsPrefix(EmittedIds, AllProjects)
    /\ (pc = "done" => EmittedIds = AllProjects)

C1_Witness ==
    /\ pc = "done"
    /\ Len(services) = 2
    /\ Len(emitted) >= 3
    /\ Len(AllProjects) > PROJECT_RESYNC_BATCH_SIZE

\* C2 as stated: every emitted batch except the last batch of the whole pass has
\* exactly PROJECT_RESYNC_BATCH_SIZE records.
C2_OnlyLastBatchOfPassShort ==
    \A i \in 1..(Len(emitted) - 1) : Len(emitted[i]) = PROJECT_RESYNC_BATCH_SIZE

\* C2 amended: batches are cut page by page: every emitted batch has between 1
\* and PROJECT_RESYNC_BATCH_SIZE records, all of one page, and a batch with
\* fewer than PROJECT_RESYNC_BATCH_SIZE records ends with the last record of
\* its page.
C2_OnlyLastBatchOfPageShort ==
    \A i \in 1..Len(emitted) :
        LET b == emitted[i]
        IN /\ Len(b) >= 1
           /\ Len(b) <= PROJECT_RESYNC_BATCH_SIZE
           /\ \A j \in 1..Len(b) : SamePage(b[1].id, b[j].id)
           /\ (Len(b) < PROJECT_RESYNC_BATCH_SIZE => LastOfPage(b[Len(b)].id))

C2_Witness ==
    /\ Len(emitted) >= 3
    /\ Len(emitted[1]) = PROJECT_RESYNC_BATCH_SIZE
    /\ Len(emitted[2]) < PROJECT_RESYNC_BATCH_SIZE

\* C3: whatever the order in which the enrichment calls of a batch complete, the
\* batch yielded is the enrichment of the records of projects_batch in the order
\* of projects_batch.
C3_OrderPreserved ==
    (emitted # <<>> /\ pc \notin {"gather", "failed"}) =>
        emitted[Len(emitted)] =
            [i \in 1..Len(projects_batch) |-> enrich_project_with_extras(projects_batch[i])]

\* a batch of at least three records whose calls completed last-to-first was yielded
C3_Witness ==
    /\ pc = "batch_loop"
    /\ emitted # <<>>
    /\ Len(projects_batch) >= 3
    /\ Len(emitted[Len(emitted)]) = Len(projects_batch)
    /\ reverseOrder

\* C4: never more than PROJECT_RESYNC_BATCH_SIZE enrichment calls are in flight,
\* and every call in flight belongs to the current projects_batch: no call of an
\* earlier group is still running once the next group has started.
C4_ConcurrencyCeiling ==
    /\ Cardinality(inflight) <= PROJECT_RESYNC_BATCH_SIZE
    /\ inflight \subseteq {projects_batch[i] : i \in 1..Len(projects_batch)}

C4_Witness ==
    /\ pc = "gather"
    /\ Cardinality(inflight) = PROJECT_RESYNC_BATCH_SIZE
    /\ Len(services[svc][page]) > PROJECT_RESYNC_BATCH_SIZE

\* C5 as stated: once the enrichment of a record failed, no emitted batch holds
\* a record of the same page.
C5_NoBatchOfFailedPage ==
    failedRec # 0 =>
        \A i \in 1..Len(emitted) : \A j \in 1..Len(emitted[i]) :
            ~SamePage(emitted[i][j].id, failedRec)

\* C5 amended: once the enrichment of a record failed, the generator has raised,
\* no emitted batch holds a record of the projects_batch whose gather failed, and
\* nothing is emitted afterwards: what is emitted is, and stays, exactly the
\* records that precede that projects_batch in pagination order, those of
\* earlier projects_batches of the same page included.
C5_FailFastPerBatch ==
    failedRec # 0 =>
        /\ raised
        /\ pc = "failed"
        /\ \A i \in 1..Len(emitted) : \A j \in 1..Len(emitted[i]) :
              \A k \in 1..Len(failedBatch) : emitted[i][j].id # failedBatch[k]
        /\ EmittedIds = SubSeq(AllProjects, 1, failedBatch[1] - 1)

\* the last record of a projects_batch of several records failed while others of
\* it were still running, after an earlier batch of the same page was emitted
C5_Witness ==
    /\ failedRec # 0
    /\ Len(failedBatch) >= 2
    /\ failedRec = failedBatch[Len(failedBatch)]
    /\ inflight # {}
    /\ emitted # <<>>
    /\ SamePage(emitted[Len(emitted)][1].id, failedRec)

\* ------------------------------------------------------ webhook endpoints
Handled == wpc \in {"returned", "raised"}

Registers == {k \in 1..Len(sinkLog) : sinkLog[k].op = "register_raw"}

Unregisters == {k \in 1..Len(sinkLog) : sinkLog[k].op = "unregister_raw"}

\* the request is a PagerDuty event with a readable event type
PagerDutyTyped == endpoint = "pagerduty" /\ data.hasEvent /\ data.hasType

\* the request is one the handler takes an upsert branch for
UpsertRequest ==
    \/ PagerDutyTyped /\ route(data.event_type) \in {"incident_upsert", "service_upsert"}
    \/ endpoint = "wiz" /\ token = wiz_webhook_verification_token

\* the body carries the id the upsert branch reads
HasIdentifier ==
    \/ endpoint = "pagerduty" /\ data.hasData /\ data.hasId
    \/ endpoint = "wiz" /\ data.hasIssue /\ data.hasId

\* C6: an upsert webhook that returns has fetched the record by the id of the
\* body and has handed exactly that fetched record to register_raw; every
\* register_raw call follows the return of the fetch for the body's id and
\* carries what the fetch returned, never the body's own record.
C6_UpsertRefetches ==
    /\ (wpc \in {"dispatch", "fetching"} => Registers = {})
    /\ \A k \in Registers :
          /\ Len(fetchLog) = 1
          /\ fetchLog[1].id = data.id
          /\ fetchLog[1].kind = sinkLog[k].kind
          /\ sinkLog[k].records = <<response.record>>
          /\ sinkLog[k].records # <<EmbeddedData(data)>>
          /\ (data.id \in upstream => sinkLog[k].records = <<LiveRecord(data.id)>>)
    /\ (UpsertRequest /\ wpc = "returned" =>
          /\ fetchLog = <<[kind |-> IF endpoint = "wiz" THEN "issue"
                                    ELSE IF route(data.event_type) = "incident_upsert"
                                    THEN "incidents" ELSE "services",
                           id |-> data.id]>>
          /\ Len(sinkLog) = 1
          /\ Registers = {1})

C6_Witness ==
    /\ endpoint = "pagerduty"
    /\ wpc = "returned"
    /\ data.id = 42
    /\ fetchLog = <<[kind |-> "incidents", id |-> 42]>>
    /\ sinkLog = <<[op |-> "register_raw", kind |-> "incidents",
                    records |-> <<LiveRecord(42)>>]>>

\* C7: a PagerDuty event whose type is in service_delete_events never causes a
\* fetch or a register_raw call, also when the type is in an upsert set as
\* well, and when the body carries the embedded data the handler returns after
\* exactly one call, unregister_raw of kind services with that data.
C7_DeleteShortcut ==
    (PagerDutyTyped /\ data.event_type \in service_delete_events) =>
        /\ fetchLog = <<>>
        /\ Registers = {}
        /\ wpc # "fetching"
        /\ (data.hasData /\ wpc # "dispatch" =>
              /\ wpc = "returned"
              /\ sinkLog = <<[op |-> "unregister_raw", kind |-> "services",
                              records |-> <<EmbeddedData(data)>>]>>)

\* a delete event for id 7 whose type is also an incident upsert type was handled
C7_Witness ==
    /\ PagerDutyTyped
    /\ data.event_type \in service_delete_events \cap incident_upsert_events
    /\ data.hasId
    /\ data.id = 7
    /\ wpc = "returned"
    /\ Len(sinkLog) = 1
    /\ Unregisters = {1}

\* C8: an upsert webhook whose refetch finds no record ends with a delete call
\* on the sink and a normal return, without register_raw.
C8_NotFoundAsDelete ==
    (UpsertRequest /\ HasIdentifier /\ data.id \notin upstream /\ Handled) =>
        /\ wpc = "returned"
        /\ Unregisters # {}
        /\ Registers = {}

\* C9: an event whose type is mapped to no action causes no fetch and no sink
\* call: a PagerDuty event type in none of the three sets, a Wiz event that is
\* not an issue event.
C9_UnmappedIgnored ==
    (\/ PagerDutyTyped /\ route(data.event_type) = "ignore"
     \/ endpoint = "wiz" /\ token = wiz_webhook_verification_token
                         /\ data.trigger # "issue") =>
        /\ fetchLog = <<>>
        /\ sinkLog = <<>>

\* C10: an event whose identifying fields are missing is ignored: the handler
\* does not raise, fetches nothing, calls the sink for nothing and the endpoint
\* answers 200.
C10_MissingFieldsIgnored ==
    (/\ Handled
     /\ \/ endpoint = "pagerduty" /\ ~(data.hasEvent /\ data.hasType /\ data.hasData
                                        /\ data.hasId)
        \/ endpoint = "wiz" /\ token = wiz_webhook_verification_token
                            /\ ~(data.hasIssue /\ data.hasId)) =>
        /\ wpc = "returned"
        /\ status = 200
        /\ fetchLog = <<>>
        /\ sinkLog = <<>>

\* ---------------------------------------------- merge-request resync
MaxGroups == 2
MaxTicks == 1
PerPage == 2

\* timedelta(days=14)
WindowDays == 14

\* the day the first pass starts
StartDay == WindowDays + 6

\* days on which the closed merge requests of the fixture were last updated:
\* one before the first pass's window, one on its first day, one inside it
ClosedLists == {<<>>, <<StartDay - WindowDays>>,
                <<StartDay - WindowDays - 1, StartDay - WindowDays + 1>>,
                <<StartDay - WindowDays, StartDay - WindowDays + 1,
                  StartDay - WindowDays - 1>>}

OpenedCounts == {0, PerPage + 1}

\* a root group: how many opened merge requests, and its closed ones
GroupShapes == [opened : OpenedCounts, closed : ClosedLists]

\* how many root groups each service has: at least one each, MaxGroups in all
GroupCounts ==
    {c \in UNION {[1..k -> 1..MaxGroups] : k \in 1..MaxGroups} : SumSeq(c) <= MaxGroups}

\* the groups of flat dealt out to services of c[1], c[2], ... groups
Split(flat, c) ==
    [s \in 1..Len(c) |-> [g \in 1..c[s] |-> flat[SumSeq(SubSeq(c, 1, s - 1)) + g]]]

\* the groups of every service: one service without a root group, or services
\* of at least one root group each, at most MaxGroups groups in all
MRLayouts ==
    {<< <<>> >>} \cup
    UNION {{Split(flat, c) : flat \in [1..SumSeq(c) -> GroupShapes]} : c \in GroupCounts}

\* number of the group among all groups, in service and group order
GroupNumber(layout, s, g) == SumSeq([i \in 1..(s - 1) |-> Len(layout[i])]) + g

\* a merge request object as the client hands it out
MergeRequest(group, state, k, day) ==
    [obj |-> [iid |-> k, group |-> group, state |-> state, updated_at |-> day]]

MRFixture(layout) ==
    [s \in 1..Len(layout) |->
        [g \in 1..Len(layout[s]) |->
            LET n == GroupNumber(layout, s, g)
                shape == layout[s][g]
            IN [opened |-> [k \in 1..shape.opened |-> MergeRequest(n, "opened", k, StartDay)],
                closed |-> [k \in 1..Len(shape.closed) |->
                               MergeRequest(n, "closed", k, shape.closed[k])]]]]

RECURSIVE Chunk(_, _)
\* offset pagination of a list, n records a page
Chunk(q, n) ==
    IF q = <<>> THEN <<>>
    ELSE <<SubSeq(q, 1, Min(n, Len(q)))>> \o Chunk(SubSeq(q, Min(n, Len(q)) + 1, Len(q)), n)

RECURSIVE Filter(_, _)
\* the merge requests of q updated on or after day `after`
Filter(q, after) ==
    IF q = <<>> THEN <<>>
    ELSE (IF Head(q).obj.updated_at >= after THEN <<Head(q)>> ELSE <<>>)
         \o Filter(Tail(q), after)

\* service.get_opened_merge_requests(group): the pages of the opened merge requests
get_opened_merge_requests(group) == Chunk(group.opened, PerPage)

\* service.get_closed_merge_requests(group, updated_after): the pages of the
\* closed merge requests updated since updated_after
get_closed_merge_requests(group, after) == Chunk(Filter(group.closed, after), PerPage)

\* merge_request.asdict()
asdict(entity) == entity.obj

\* [merge_request.asdict() for merge_request in merge_request_batch]
asdict_batch(batch) == [i \in 1..Len(batch) |-> asdict(batch[i])]

\* a pass that lists the closed merge requests of a group before the opened ones
group_batches_closed_first(group, after) ==
    get_closed_merge_requests(group, after) \o get_opened_merge_requests(group)

\* the pages the two async for loops of one group go through, in order
group_batches(group, after) ==
    get_opened_merge_requests(group) \o get_closed_merge_requests(group, after)

mrGroup == mr_services[mr_svc][mr_grp]

mrFrame == <<gitlabVars, webhookVars, appVars, cancelVars, wizVars, raceVars>>

InitMR ==
    /\ GitlabOff
    /\ WebhookOff
    /\ AppOff /\ CancelOff /\ WizOff /\ RaceOff
    /\ mr_services \in {MRFixture(l) : l \in MRLayouts}
    /\ now = StartDay
    /\ ticks = 0
    /\ updated_after = <<0, 0>>
    /\ mr_pass = 1
    /\ mr_pc = "start"
    /\ mr_svc = 0
    /\ mr_grp = 0
    /\ mr_page = 0
    /\ mr_fetched = 0
    /\ mr_emitted = << <<>>, <<>> >>
    /\ mr_fetchFailed = FALSE
    /\ mr_raised = FALSE

\* line 126: updated_after = datetime.now() - timedelta(days=14)
MRStart ==
    /\ mr_pc = "start"
    /\ updated_after' = [updated_after EXCEPT ![mr_pass] = now - WindowDays]
    /\ mr_pc' = "service_loop"
    /\ UNCHANGED <<mr_services, now, ticks, mr_pass, mr_svc, mr_grp, mr_page, mr_fetched,
                   mr_emitted, mr_fetchFailed, mr_raised>>
    /\ UNCHANGED mrFrame

\* line 128: for service in get_cached_all_services()
MRNextService ==
    /\ mr_pc = "service_loop"
    /\ IF mr_svc < Len(mr_services)
       THEN /\ mr_svc' = mr_svc + 1
            /\ mr_grp' = 0
            /\ mr_pc' = "group_loop"
       ELSE /\ mr_pc' = "done"
            /\ UNCHANGED <<mr_svc, mr_grp>>
    /\ UNCHANGED <<mr_services, now, ticks, updated_after, mr_pass, mr_page, mr_fetched,
                   mr_emitted, mr_fetchFailed, mr_raised>>
    /\ UNCHANGED mrFrame

\* line 129: for group in service.get_root_groups()
MRNextGroup ==
    /\ mr_pc = "group_loop"
    /\ IF mr_grp < Len(mr_services[mr_svc])
       THEN /\ mr_grp' = mr_grp + 1
            /\ mr_page' = 0
            /\ mr_pc' = "pages"
       ELSE /\ mr_pc' = "service_loop"
            /\ UNCHANGED <<mr_grp, mr_page>>
    /\ UNCHANGED <<mr_services, now, ticks, updated_after, mr_pass, mr_svc, mr_fetched,
                   mr_emitted, mr_fetchFailed, mr_raised>>
    /\ UNCHANGED mrFrame

\* lines 130-135: the next page of the opened, then of the closed merge requests
\* of the group is fetched and yielded as one batch; after the last page the
\* generator goes on to the next group
MRPage ==
    /\ mr_pc = "pages"
    /\ LET pages == group_batches(mrGroup, updated_after[mr_pass])
       IN IF mr_page < Len(pages)
          THEN /\ mr_page' = mr_page + 1
               /\ mr_fetched' = mr_fetched + 1
               /\ mr_emitted' = [mr_emitted EXCEPT ![mr_pass] =
                                    Append(@, asdict_batch(pages[mr_page + 1]))]
               /\ UNCHANGED mr_pc
          ELSE /\ mr_pc' = "group_loop"
               /\ UNCHANGED <<mr_page, mr_fetched, mr_emitted>>
    /\ UNCHANGED <<mr_services, now, ticks, updated_after, mr_pass, mr_svc, mr_grp,
                   mr_fetchFailed, mr_raised>>
    /\ UNCHANGED mrFrame

\* a generator that logs the failed fetch and goes on with the next group
MRFetchFail_skipping ==
    /\ mr_pc = "pages"
    /\ mr_fetchFailed' = TRUE
    /\ mr_pc' = "group_loop"
    /\ UNCHANGED <<mr_services, now, ticks, updated_after, mr_pass, mr_svc, mr_grp,
                   mr_page, mr_fetched, mr_emitted, mr_raised>>
    /\ UNCHANGED mrFrame

\* lines 130, 132: the fetch of a page raises; the async for lets the exception
\* through and the generator raises to its caller
MRFetchFail ==
    /\ mr_pc = "pages"
    /\ mr_fetchFailed' = TRUE
    /\ mr_raised' = TRUE
    /\ mr_pc' = "failed"
    /\ UNCHANGED <<mr_services, now, ticks, updated_after, mr_pass, mr_svc, mr_grp,
                   mr_page, mr_fetched, mr_emitted>>
    /\ UNCHANGED mrFrame

\* a day passes between the two passes
MRTick ==
    /\ mr_pc = "done"
    /\ mr_pass = 1
    /\ ticks < MaxTicks
    /\ now' = now + 1
    /\ ticks' = ticks + 1
    /\ UNCHANGED <<mr_services, updated_after, mr_pass, mr_pc, mr_svc, mr_grp, mr_page,
                   mr_fetched, mr_emitted, mr_fetchFailed, mr_raised>>
    /\ UNCHANGED mrFrame

\* a second pass that goes on from where the first one stopped
MRSecondPass_resuming ==
    /\ mr_pc = "done"
    /\ mr_pass = 1
    /\ mr_pass' = 2
    /\ mr_pc' = "start"
    /\ UNCHANGED <<mr_services, now, ticks, updated_after, mr_svc, mr_grp, mr_page,
                   mr_fetched, mr_emitted, mr_fetchFailed, mr_raised>>
    /\ UNCHANGED mrFrame

\* lines 124-128: the scheduler calls resync_merge_requests again: a new
\* generator with its own locals
MRSecondPass ==
    /\ mr_pc = "done"
    /\ mr_pass = 1
    /\ mr_pass' = 2
    /\ mr_pc' = "start"
    /\ mr_svc' = 0
    /\ mr_grp' = 0
    /\ mr_page' = 0
    /\ mr_fetched' = 0
    /\ UNCHANGED <<mr_services, now, ticks, updated_after, mr_emitted, mr_fetchFailed,
                   mr_raised>>
    /\ UNCHANGED mrFrame

NextMR ==
    \/ MRStart
    \/ MRNextService
    \/ MRNextGroup
    \/ MRPage
    \/ MRFetchFail
    \/ MRTick
    \/ MRSecondPass

SpecMR == InitMR /\ [][NextMR]_vars

\* ------------------------------------------- claims on the merge-request pass
\* all root groups of the fixture, in service and group order
AllGroups == Concat(mr_services)

\* the batches one group contributes: its opened pages, then its closed pages
ExpectedOfGroup(group, after) ==
    LET pages == get_opened_merge_requests(group) \o get_closed_merge_requests(group, after)
    IN [p \in 1..Len(pages) |-> [i \in 1..Len(pages[p]) |-> pages[p][i].obj]]

\* the batch stream of a whole pass whose cut-off day is `after`
ExpectedStream(after) ==
    Concat([n \in 1..Len(AllGroups) |-> ExpectedOfGroup(AllGroups[n], after)])

SecondPassDone == mr_pass = 2 /\ mr_pc = "done"

\* the closed merge requests that a pass with cut-off a lists and one with cut-off b does not
LeftWindow(a, b) ==
    {n \in 1..Len(AllGroups) :
        \E k \in 1..Len(AllGroups[n].closed) :
            /\ AllGroups[n].closed[k].obj.updated_at >= a
            /\ AllGroups[n].closed[k].obj.updated_at < b}

\* C11 as stated: two passes over an unchanged fixture emit the same batches with
\* the same boundaries.
C11_IdenticalStreams == SecondPassDone => mr_emitted[1] = mr_emitted[2]

\* C11: the second merge-request pass emits the stream that the fixture and its own
\* cut-off day (the clock minus 14 days) determine, whatever the first pass did;
\* the two streams are identical exactly when no closed merge request left the
\* 14-day window between the two passes.
C11_IdenticalUnlessWindowMoved ==
    SecondPassDone =>
        /\ mr_emitted[1] = ExpectedStream(updated_after[1])
        /\ mr_emitted[2] = ExpectedStream(updated_after[2])
        /\ (mr_emitted[1] = mr_emitted[2])
               <=> (LeftWindow(updated_after[1], updated_after[2]) = {})

\* a day passed between the passes, closed merge requests were listed, and the two
\* streams are the same
C11_Witness ==
    /\ SecondPassDone
    /\ ticks > 0
    /\ mr_emitted[1] = mr_emitted[2]
    /\ \E b \in 1..Len(mr_emitted[2]) : mr_emitted[2][b][1].state = "closed"
    /\ \E b \in 1..Len(mr_emitted[2]) : mr_emitted[2][b][1].state = "opened"

\* C16: once a page fetch of the merge-request pass has failed, the generator has
\* raised to its caller and stopped, the batches emitted so far stay as they are,
\* each fetched page emitted once, and no batch is emitted afterwards.
C16_FetchFailureAborts ==
    [][/\ mr_fetchFailed' => (mr_raised' /\ mr_pc' = "failed")
       /\ mr_fetchFailed => mr_emitted' = mr_emitted
       /\ mr_fetchFailed' =>
              /\ Len(mr_emitted'[mr_pass']) = mr_fetched'
              /\ IsPrefix(mr_emitted'[mr_pass'], ExpectedStream(updated_after'[mr_pass']))
      ]_vars

\* a fetch failed after a batch had been emitted and with batches still to come
C16_Witness ==
    /\ mr_fetchFailed
    /\ mr_pc = "failed"
    /\ mr_raised
    /\ Len(mr_emitted[mr_pass]) > 0
    /\ Len(mr_emitted[mr_pass]) < Len(ExpectedStream(updated_after[mr_pass]))

\* the batches of the running pass
mrStream == mr_emitted[mr_pass]

\* C19: the batches of a merge-request pass come in pagination order: every batch
\* is one page of one state of one group; groups never go backwards, no opened
\* page of a group comes after a closed page of it, pages of one listing come in
\* the order fetched; a finished pass has emitted exactly the pages of all groups.
C19_PaginationOrder ==
    /\ \A b \in 1..Len(mrStream) :
          /\ Len(mrStream[b]) \in 1..PerPage
          /\ \A i \in 1..Len(mrStream[b]) :
                /\ mrStream[b][i].group = mrStream[b][1].group
                /\ mrStream[b][i].state = mrStream[b][1].state
                /\ i > 1 => mrStream[b][i].iid = mrStream[b][i - 1].iid + 1
    /\ \A a \in 1..Len(mrStream) : \A b \in 1..Len(mrStream) :
          a < b =>
             /\ mrStream[a][1].group <= mrStream[b][1].group
             /\ mrStream[a][1].group = mrStream[b][1].group =>
                   /\ ~(mrStream[a][1].state = "closed" /\ mrStream[b][1].state = "opened")
                   /\ mrStream[a][1].state = mrStream[b][1].state =>
                         mrStream[a][Len(mrStream[a])].iid < mrStream[b][1].iid
    /\ IsPrefix(mrStream, ExpectedStream(updated_after[mr_pass]))
    /\ mr_pc = "done" => mrStream = ExpectedStream(updated_after[mr_pass])

\* a finished pass over two groups, the first with opened pages followed by a
\* closed page
C19_Witness ==
    /\ mr_pc = "done"
    /\ \E a \in 1..Len(mrStream) : \E b \in 1..Len(mrStream) : \E c \in 1..Len(mrStream) :
          /\ a < b /\ b < c
          /\ mrStream[a][1].state = "opened"
          /\ mrStream[b][1].state = "closed"
          /\ mrStream[a][1].group = mrStream[b][1].group
          /\ mrStream[c][1].group > mrStream[b][1].group

\* --------------------------------------------- claims on the Wiz token check
WrongToken == endpoint = "wiz" /\ token # wiz_webhook_verification_token

\* C20: a Wiz webhook request whose bearer token is not the configured
\* verification token ends with 401 and nothing else: no client is created, no
\* get_single_issue fetch is made, register_raw is not called; a client, a fetch,
\* a sink call or any other answer on the Wiz endpoint means the token matched.
C20_WrongTokenRejectedFirst ==
    /\ WrongToken =>
          /\ wpc \in {"dispatch", "raised"}
          /\ wiz_client = FALSE
          /\ fetchLog = <<>>
          /\ sinkLog = <<>>
          /\ response = NoResponse
          /\ (wpc = "raised" => status = 401)
    /\ endpoint = "wiz" =>
          /\ (status = 401 => WrongToken /\ wpc = "raised")
          /\ (wiz_client \/ fetchLog # <<>> \/ sinkLog # <<>> \/ status \in {200, 500}
                 => token = wiz_webhook_verification_token)

\* a request with a wrong token was rejected although its body names an issue
\* that exists upstream
C20_Witness ==
    /\ WrongToken
    /\ wpc = "raised"
    /\ status = 401
    /\ data.hasIssue /\ data.hasId /\ data.id \in upstream
    /\ wiz_client = FALSE /\ fetchLog = <<>> /\ sinkLog = <<>>

\* ------------------------------------------ start-up and the system hook
\* Python's None
None == "None"

\* bool(v) of None or a string
truthy(v) == v # None /\ v # ""

\* an `or` that looks at its second operand first
py_or_second_first(a, b) == IF truthy(b) THEN b ELSE a

\* a or b
py_or(a, b) == IF truthy(a) THEN a ELSE b

Providers == {"gitlab", "pagerduty"}

ListenerTypes == {"ONCE", "POLLING", "KAFKA"}

\* app_host of the configuration: not set, empty, set
AppHosts == {None, "", "https://app.example"}

\* event names a system hook body carries
EventNames == {"", "project_create", "merge_request"}

\* a system hook body: which of the two discriminator fields it has
SystemHookBodies ==
    {b \in [has_event_name : BOOLEAN, event_name : EventNames,
            has_event_type : BOOLEAN, event_type : EventNames] :
        /\ ~b.has_event_name => b.event_name = ""
        /\ ~b.has_event_type => b.event_type = ""}

\* body.get(key)
body_get(body, key) ==
    IF key = "event_name"
    THEN (IF body.has_event_name THEN body.event_name ELSE None)
    ELSE (IF body.has_event_type THEN body.event_type ELSE None)

\* outcomes of the webhook setup call, whose code is not in this file
SetupOutcomes == {"returns", "raises"}

appFrame == <<gitlabVars, webhookVars, mrVars, cancelVars, wizVars, raceVars>>

hookVars == <<hook_body, hook_pc, notified, hook_status>>

InitApp ==
    /\ GitlabOff /\ WebhookOff /\ MROff /\ CancelOff /\ WizOff /\ RaceOff
    /\ provider \in Providers
    /\ event_listener_type \in ListenerTypes
    /\ app_host \in AppHosts
    /\ start_pc = "start"
    /\ setup_calls = 0
    /\ warnings = 0
    /\ hook_body = <<>>
    /\ hook_pc = "idle"
    /\ notified = <<>>
    /\ hook_status = 0

\* gitlab lines 42-53: return when the listener is ONCE; warn and return when
\* there is no app_host; otherwise go on to the setup
gitlab_on_start ==
    /\ provider = "gitlab"
    /\ start_pc = "start"
    /\ IF event_listener_type = "ONCE"
       THEN /\ start_pc' = "done"
            /\ UNCHANGED warnings
       ELSE IF ~truthy(app_host)
       THEN /\ warnings' = warnings + 1
            /\ start_pc' = "done"
       ELSE /\ start_pc' = "setup"
            /\ UNCHANGED warnings
    /\ UNCHANGED <<provider, event_listener_type, app_host, setup_calls>>
    /\ UNCHANGED hookVars
    /\ UNCHANGED appFrame

\* gitlab lines 55-67: setup_application inside try; an exception is logged as
\* a warning and on_start returns
setup_application ==
    /\ provider = "gitlab"
    /\ start_pc = "setup"
    /\ setup_calls' = setup_calls + 1
    /\ \E outcome \in SetupOutcomes :
          warnings' = IF outcome = "raises" THEN warnings + 1 ELSE warnings
    /\ start_pc' = "done"
    /\ UNCHANGED <<provider, event_listener_type, app_host>>
    /\ UNCHANGED hookVars
    /\ UNCHANGED appFrame

\* pagerduty lines 61-64: on_start logs and awaits
\* create_webhooks_if_not_exists, whatever the listener type and app_host
pagerduty_on_start ==
    /\ provider = "pagerduty"
    /\ start_pc = "start"
    /\ start_pc' = "setup"
    /\ UNCHANGED <<provider, event_listener_type, app_host, setup_calls, warnings>>
    /\ UNCHANGED hookVars
    /\ UNCHANGED appFrame

\* pagerduty line 64: the awaited call returns, or raises out of on_start
create_webhooks_if_not_exists ==
    /\ provider = "pagerduty"
    /\ start_pc = "setup"
    /\ setup_calls' = setup_calls + 1
    /\ \E outcome \in SetupOutcomes :
          start_pc' = IF outcome = "raises" THEN "raised" ELSE "done"
    /\ UNCHANGED <<provider, event_listener_type, app_host, warnings>>
    /\ UNCHANGED hookVars
    /\ UNCHANGED appFrame

\* a POST /system/hook request arrives at the started GitLab integration
SystemHookRequest(body) ==
    /\ provider = "gitlab"
    /\ start_pc = "done"
    /\ hook_pc \in {"idle", "returned"}
    /\ hook_body' = body
    /\ hook_pc' = "handling"
    /\ notified' = <<>>
    /\ hook_status' = 0
    /\ UNCHANGED <<provider, event_listener_type, app_host, start_pc, setup_calls, warnings>>
    /\ UNCHANGED appFrame

\* gitlab lines 31-39: pick the event name, notify, answer {"ok": True}
handle_system_webhook ==
    /\ hook_pc = "handling"
    /\ LET event_name == py_or(body_get(hook_body, "event_name"),
                               body_get(hook_body, "event_type"))
       IN notified' = Append(notified, [event_name |-> event_name, body |-> hook_body])
    /\ hook_pc' = "returned"
    /\ hook_status' = 200
    /\ UNCHANGED <<provider, event_listener_type, app_host, start_pc, setup_calls, warnings,
                   hook_body>>
    /\ UNCHANGED appFrame

NextApp ==
    \/ gitlab_on_start
    \/ setup_application
    \/ pagerduty_on_start
    \/ create_webhooks_if_not_exists
    \/ \E body \in SystemHookBodies : SystemHookRequest(body)
    \/ handle_system_webhook

SpecApp == InitApp /\ [][NextApp]_vars

\* ------------------------------------------------- claims on start-up
\* C14 as stated: on_start of every provider makes no setup call when the
\* listener is ONCE or app_host is absent or empty, warns in the latter case, and
\* never raises.
C14_SetupSkippedAndFailureCaught ==
    /\ event_listener_type = "ONCE" => setup_calls = 0 /\ start_pc # "setup"
    /\ ~truthy(app_host) => setup_calls = 0 /\ start_pc # "setup"
    /\ (~truthy(app_host) /\ event_listener_type # "ONCE" /\ start_pc = "done")
          => warnings = 1
    /\ start_pc # "raised"

\* C15: the name handed to system_event_handler.notify is the body's event_name
\* when the body has a non-empty one, else its event_type, else null; the
\* handler notifies exactly once with the body and answers ok.
C15_EventNameOrEventType ==
    /\ hook_pc = "handling" => notified = <<>>
    /\ hook_pc = "returned" =>
          /\ hook_status = 200
          /\ Len(notified) = 1
          /\ notified[1].body = hook_body
          /\ notified[1].event_name =
                IF hook_body.has_event_name /\ hook_body.event_name # ""
                THEN hook_body.event_name
                ELSE IF hook_body.has_event_type THEN hook_body.event_type
                ELSE None

\* a body without event_name was notified under its event_type
C15_Witness ==
    /\ hook_pc = "returned"
    /\ ~hook_body.has_event_name
    /\ hook_body.has_event_type
    /\ hook_body.event_type = "merge_request"
    /\ notified = <<[event_name |-> "merge_request", body |-> hook_body]>>

\* ------------------------------------- cancellation of the project resync
cancelFrame == <<webhookVars, mrVars, appVars, wizVars, raceVars>>

\* the points where the generator is suspended: waiting for the next page
\* (line 82), waiting for the gather (line 98), at the yield (line 102)
SuspensionPoints == {"page_loop", "gather", "batch_loop"}

\* a cancellation that hands over what the gather has got so far
Cancel_flushing ==
    /\ pc \in SuspensionPoints
    /\ cancelled_batch' = (IF pc = "gather" THEN projects_batch ELSE <<>>)
    /\ cancelled_done' = (IF pc = "gather" THEN completed ELSE 0)
    /\ emitted' = (IF pc = "gather" THEN Append(emitted, results) ELSE emitted)
    /\ inflight' = {}
    /\ projects_batch' = <<>>
    /\ results' = <<>>
    /\ completed' = 0
    /\ reverseOrder' = TRUE
    /\ pc' = "cancelled"
    /\ UNCHANGED <<services, svc, page, pos, failedRec, failedBatch, raised>>
    /\ UNCHANGED cancelFrame

\* the task running the pass is cancelled: CancelledError is raised at the await
\* or yield the generator is suspended at; a pending gather cancels its
\* enrichment calls; the generator has no handler and ends, its locals are gone
Cancel ==
    /\ pc \in SuspensionPoints
    /\ cancelled_batch' = (IF pc = "gather" THEN projects_batch ELSE <<>>)
    /\ cancelled_done' = (IF pc = "gather" THEN completed ELSE 0)
    /\ inflight' = {}
    /\ projects_batch' = <<>>
    /\ results' = <<>>
    /\ completed' = 0
    /\ reverseOrder' = TRUE
    /\ pc' = "cancelled"
    /\ UNCHANGED <<services, svc, page, pos, emitted, failedRec, failedBatch, raised>>
    /\ UNCHANGED cancelFrame

NextCancel ==
    \/ Next
    \/ Cancel

SpecCancel == Init /\ [][NextCancel]_vars

\* C17: whenever the project resync is cancelled, every batch the consumer has
\* got is fully enriched, one enriched record per project of the batch, and the
\* batches got are the first whole batches of the pass; no project of a batch
\* whose gather was cancelled is in any batch, however many of its enrichment
\* calls had returned.
C17_NoPartBatchOnCancel ==
    /\ \A b \in 1..Len(emitted) : \A i \in 1..Len(emitted[b]) :
          /\ emitted[b][i] # NoResult
          /\ emitted[b][i] = enrich_project_with_extras(emitted[b][i].id)
    /\ IsPrefix(EmittedIds, AllProjects)
    /\ pc = "cancelled" =>
          /\ inflight = {}
          /\ \A i \in 1..Len(cancelled_batch) : \A k \in 1..Len(EmittedIds) :
                EmittedIds[k] # cancelled_batch[i]
          /\ cancelled_batch # <<>> =>
                cancelled_batch[1] = AllProjects[Len(EmittedIds) + 1]

\* the pass was cancelled after a batch had been emitted, while some but not all
\* enrichment calls of the next batch had returned
C17_Witness ==
    /\ pc = "cancelled"
    /\ emitted # <<>>
    /\ cancelled_done > 0
    /\ cancelled_done < Len(cancelled_batch)

\* ------------------------------------------------------------ Wiz resync
MaxIssues == 2
MaxWizPages == 2

\* ObjectKind of wiz/main.py, and a kind the mapping may name that it lacks
ResyncKinds == {"project", "issue", "serviceTicket", "control", "vulnerability"}

\* sourceRule of an issue: none, or one of two controls
SourceRules == {None, "rule-1", "rule-2"}

\* serviceTickets of an issue
TicketLists == {<<>>, <<"ticket-1">>, <<"ticket-1", "ticket-2">>}

\* an issue as get_issues() returns it, but for its id
IssueShapes ==
    {i \in [sourceRule : SourceRules, has_serviceTickets : BOOLEAN,
            serviceTickets : TicketLists] :
        ~i.has_serviceTickets => i.serviceTickets = <<>>}

\* how many issues each page of get_issues() has
IssuePageSizes ==
    {c \in UNION {[1..k -> 0..MaxIssues] : k \in 0..MaxWizPages} : SumSeq(c) <= MaxIssues}

\* the issues of flat, numbered in order
Numbered(flat) ==
    [k \in 1..Len(flat) |->
        [id |-> k, sourceRule |-> flat[k].sourceRule,
         has_serviceTickets |-> flat[k].has_serviceTickets,
         serviceTickets |-> flat[k].serviceTickets]]

IssueFixtures ==
    UNION {{Split(Numbered(flat), c) : flat \in [1..SumSeq(c) -> IssueShapes]} :
              c \in IssuePageSizes}

\* pages of get_projects()
ProjectFixtures == {<<>>, << <<"project-1", "project-2">>, <<"project-3">> >>}

RECURSIVE source_rules(_)
\* [issue["sourceRule"] for issue in _issues if issue.get("sourceRule") is not None]
source_rules(_issues) ==
    IF _issues = <<>> THEN <<>>
    ELSE (IF Head(_issues).sourceRule # None THEN <<Head(_issues).sourceRule>> ELSE <<>>)
         \o source_rules(Tail(_issues))

RECURSIVE service_tickets(_)
\* [ticket for issue in _issues for ticket in issue.get("serviceTickets", [])]
service_tickets(_issues) ==
    IF _issues = <<>> THEN <<>>
    ELSE (IF Head(_issues).has_serviceTickets THEN Head(_issues).serviceTickets ELSE <<>>)
         \o service_tickets(Tail(_issues))

wizFrame == <<gitlabVars, webhookVars, mrVars, appVars, cancelVars, raceVars>>

InitWiz ==
    /\ GitlabOff /\ WebhookOff /\ MROff /\ AppOff /\ CancelOff /\ RaceOff
    /\ wiz_kind \in ResyncKinds
    /\ wiz_projects \in ProjectFixtures
    /\ wiz_issues \in IssueFixtures
    /\ wiz_pc = "iterating"
    /\ wiz_cursor = 0
    /\ wiz_emitted = <<>>

\* lines 33-36: kind project: the next page of get_projects() is yielded
wiz_projects_page ==
    /\ wiz_pc = "iterating"
    /\ wiz_kind = "project"
    /\ wiz_cursor < Len(wiz_projects)
    /\ wiz_cursor' = wiz_cursor + 1
    /\ wiz_emitted' = Append(wiz_emitted, wiz_projects[wiz_cursor + 1])
    /\ UNCHANGED <<wiz_kind, wiz_projects, wiz_issues, wiz_pc>>
    /\ UNCHANGED wizFrame

\* lines 37-53: any other kind: the next page of get_issues() is yielded as it
\* is, as its source rules or as its service tickets; for a kind that is none of
\* the three nothing is yielded
wiz_issues_page ==
    /\ wiz_pc = "iterating"
    /\ wiz_kind # "project"
    /\ wiz_cursor < Len(wiz_issues)
    /\ wiz_cursor' = wiz_cursor + 1
    /\ LET _issues == wiz_issues[wiz_cursor + 1]
       IN wiz_emitted' =
             IF wiz_kind = "issue" THEN Append(wiz_emitted, _issues)
             ELSE IF wiz_kind = "control" THEN Append(wiz_emitted, source_rules(_issues))
             ELSE IF wiz_kind = "serviceTicket"
                  THEN Append(wiz_emitted, service_tickets(_issues))
             ELSE wiz_emitted
    /\ UNCHANGED <<wiz_kind, wiz_projects, wiz_issues, wiz_pc>>
    /\ UNCHANGED wizFrame

\* the async for is exhausted and the generator ends
wiz_on_resync_end ==
    /\ wiz_pc = "iterating"
    /\ wiz_cursor = Len(IF wiz_kind = "project" THEN wiz_projects ELSE wiz_issues)
    /\ wiz_pc' = "done"
    /\ UNCHANGED <<wiz_kind, wiz_projects, wiz_issues, wiz_cursor, wiz_emitted>>
    /\ UNCHANGED wizFrame

NextWiz ==
    \/ wiz_projects_page
    \/ wiz_issues_page
    \/ wiz_on_resync_end

SpecWiz == InitWiz /\ [][NextWiz]_vars

\* ------------------------------------------------- claims on the Wiz resync
\* how many times x is in q
Occurrences(q, x) == Cardinality({k \in 1..Len(q) : q[k] = x})

\* the records emitted so far, batch after batch
WizEmittedRecords == Concat(wiz_emitted)

\* C18 as stated: in a pass for control or serviceTicket no record is in the
\* batches more than once, also when several issues refer to it, and a finished
\* pass has emitted every referenced record; for kind issue the batches are the
\* issue pages themselves.
C18_EachDerivedRecordOnce ==
    /\ wiz_kind \in {"control", "serviceTicket"} =>
          \A k \in 1..Len(WizEmittedRecords) :
              Occurrences(WizEmittedRecords, WizEmittedRecords[k]) = 1
    /\ (wiz_kind = "control" /\ wiz_pc = "done") =>
          \A p \in 1..Len(wiz_issues) : \A i \in 1..Len(wiz_issues[p]) :
              wiz_issues[p][i].sourceRule # None =>
                  Occurrences(WizEmittedRecords, wiz_issues[p][i].sourceRule) = 1
    /\ wiz_kind = "issue" => wiz_emitted = SubSeq(wiz_issues, 1, wiz_cursor)

\* ----------------------------- a Wiz issue resync with webhooks arriving
MaxVersion == 2
MaxEvents == 2

\* the issue ids of the pages of get_issues()
RacePageLayouts ==
    {<< <<7>> >>, << <<7, 42>> >>, << <<7>>, <<42>> >>, << <<42>>, <<7>> >>}

\* the issue id as the provider returns it at the moment of the read
ReadIssue(id) == [id |-> id, ver |-> version[id]]

\* the sink after register_raw of the records: an upsert by id
upsert(store, records) ==
    [id \in Ids |->
        IF \E k \in 1..Len(records) : records[k].id = id
        THEN records[CHOOSE k \in 1..Len(records) : records[k].id = id].ver
        ELSE store[id]]

\* the writes of a register_raw call, as logged
Logged(records, by, at) ==
    [k \in 1..Len(records) |->
        [by |-> by, id |-> records[k].id, ver |-> records[k].ver, at |-> at]]

raceFrame == <<gitlabVars, webhookVars, mrVars, appVars, cancelVars, wizVars>>

passVars == <<race_pc, race_cursor, snapshot, snapshot_at, race_emitted>>

eventVars == <<events, ev_pc, ev_id, ev_issue, ev_at, ev_calls>>

InitRace ==
    /\ GitlabOff /\ WebhookOff /\ MROff /\ AppOff /\ CancelOff /\ WizOff
    /\ race_pages \in RacePageLayouts
    /\ version = [id \in Ids |-> 1]
    /\ clock = 0
    /\ race_pc = "iterating"
    /\ race_cursor = 0
    /\ snapshot = <<>>
    /\ snapshot_at = 0
    /\ race_emitted = <<>>
    /\ events = 0
    /\ ev_pc = "idle"
    /\ ev_id = 0
    /\ ev_issue = <<>>
    /\ ev_at = 0
    /\ ev_calls = <<>>
    /\ sink = [id \in Ids |-> 0]
    /\ writes = <<>>

\* an issue changes at the provider
UpstreamUpdate(id) ==
    /\ version[id] < MaxVersion
    /\ version' = [version EXCEPT ![id] = @ + 1]
    /\ UNCHANGED <<race_pages, clock, sink, writes>>
    /\ UNCHANGED passVars
    /\ UNCHANGED eventVars
    /\ UNCHANGED raceFrame

\* wiz lines 38-41, kind issue: the next page of get_issues() is read and yielded
race_fetch_page ==
    /\ race_pc = "iterating"
    /\ race_cursor < Len(race_pages)
    /\ LET ids == race_pages[race_cursor + 1]
       IN snapshot' = [k \in 1..Len(ids) |-> ReadIssue(ids[k])]
    /\ clock' = clock + 1
    /\ snapshot_at' = clock + 1
    /\ race_cursor' = race_cursor + 1
    /\ race_pc' = "yielded"
    /\ UNCHANGED <<race_pages, version, race_emitted, sink, writes>>
    /\ UNCHANGED eventVars
    /\ UNCHANGED raceFrame

\* a pass that reads the issues of the yielded page again when they are written
race_register_batch_refetching ==
    /\ race_pc = "yielded"
    /\ LET fresh == [k \in 1..Len(snapshot) |-> ReadIssue(snapshot[k].id)]
       IN /\ race_emitted' = Append(race_emitted, fresh)
          /\ sink' = upsert(sink, fresh)
          /\ writes' = writes \o Logged(fresh, "resync", snapshot_at)
    /\ race_pc' = "iterating"
    /\ UNCHANGED <<race_pages, version, clock, race_cursor, snapshot, snapshot_at>>
    /\ UNCHANGED eventVars
    /\ UNCHANGED raceFrame

\* wiz line 41: the consumer of the generator takes the yielded page, as it was
\* read, and registers it; the generator goes on
race_register_batch ==
    /\ race_pc = "yielded"
    /\ race_emitted' = Append(race_emitted, snapshot)
    /\ sink' = upsert(sink, snapshot)
    /\ writes' = writes \o Logged(snapshot, "resync", snapshot_at)
    /\ race_pc' = "iterating"
    /\ UNCHANGED <<race_pages, version, clock, race_cursor, snapshot, snapshot_at>>
    /\ UNCHANGED eventVars
    /\ UNCHANGED raceFrame

\* the async for is exhausted and the generator ends
race_end ==
    /\ race_pc = "iterating"
    /\ race_cursor = Len(race_pages)
    /\ race_pc' = "done"
    /\ UNCHANGED <<race_pages, version, clock, race_cursor, snapshot, snapshot_at,
                   race_emitted, sink, writes>>
    /\ UNCHANGED eventVars
    /\ UNCHANGED raceFrame

\* wiz lines 56-70: a POST /webhook with the right token arrives for an issue
RaceWebhookRequest(id) ==
    /\ ev_pc \in {"idle", "returned"}
    /\ events < MaxEvents
    /\ events' = events + 1
    /\ ev_id' = id
    /\ ev_issue' = <<>>
    /\ ev_at' = 0
    /\ ev_calls' = <<>>
    /\ ev_pc' = "fetching"
    /\ UNCHANGED <<race_pages, version, clock, sink, writes>>
    /\ UNCHANGED passVars
    /\ UNCHANGED raceFrame

\* wiz line 72: issue = await wiz_client.get_single_issue(data["issue"]["id"])
race_get_single_issue ==
    /\ ev_pc = "fetching"
    /\ ev_issue' = ReadIssue(ev_id)
    /\ clock' = clock + 1
    /\ ev_at' = clock + 1
    /\ ev_pc' = "register"
    /\ UNCHANGED <<race_pages, version, events, ev_id, ev_calls, sink, writes>>
    /\ UNCHANGED passVars
    /\ UNCHANGED raceFrame

\* a handler that shares the cursor of the running pass and rewinds it
race_register_raw_rewinding ==
    /\ ev_pc = "register"
    /\ ev_calls' = Append(ev_calls, <<ev_issue>>)
    /\ sink' = upsert(sink, <<ev_issue>>)
    /\ writes' = writes \o Logged(<<ev_issue>>, "webhook", ev_at)
    /\ ev_pc' = "returned"
    /\ race_cursor' = 0
    /\ UNCHANGED <<race_pages, version, clock, events, ev_id, ev_issue, ev_at>>
    /\ UNCHANGED <<race_pc, snapshot, snapshot_at, race_emitted>>
    /\ UNCHANGED raceFrame

\* wiz lines 73-75: await ocean.register_raw(ObjectKind.ISSUE, [issue]); return
race_register_raw ==
    /\ ev_pc = "register"
    /\ ev_calls' = Append(ev_calls, <<ev_issue>>)
    /\ sink' = upsert(sink, <<ev_issue>>)
    /\ writes' = writes \o Logged(<<ev_issue>>, "webhook", ev_at)
    /\ ev_pc' = "returned"
    /\ UNCHANGED <<race_pages, version, clock, events, ev_id, ev_issue, ev_at>>
    /\ UNCHANGED passVars
    /\ UNCHANGED raceFrame

NextRace ==
    \/ \E id \in Ids : UpstreamUpdate(id)
    \/ race_fetch_page
    \/ race_register_batch
    \/ race_end
    \/ \E id \in Ids : RaceWebhookRequest(id)
    \/ race_get_single_issue
    \/ race_register_raw

SpecRace == InitRace /\ [][NextRace]_vars

\* ----------------------------------- claims on webhooks during a resync
\* the ids of every batch the pass has emitted
RaceEmittedIds ==
    [b \in 1..Len(race_emitted) |-> [k \in 1..Len(race_emitted[b]) |-> race_emitted[b][k].id]]

\* C12: a handled webhook request has made one sink call, a call in progress at
\* most one, each with exactly one record, the record of the request's id; and
\* whatever webhooks are handled meanwhile, the pass goes through the pages once
\* and in order: its batches are the pages of get_issues() up to its cursor, each
\* as it was read.
C12_OneRecordAndPassUntouched ==
    /\ Len(ev_calls) <= 1
    /\ \A c \in 1..Len(ev_calls) :
          /\ Len(ev_calls[c]) = 1
          /\ ev_calls[c][1].id = ev_id
    /\ ev_pc = "returned" => Len(ev_calls) = 1
    /\ ev_pc \in {"fetching", "register"} => ev_calls = <<>>
    /\ race_cursor = Len(race_emitted) + (IF race_pc = "yielded" THEN 1 ELSE 0)
    /\ RaceEmittedIds = SubSeq(race_pages, 1, Len(race_emitted))
    /\ race_pc = "done" => RaceEmittedIds = race_pages
    /\ race_pc = "yielded" => snapshot_at > 0 /\ Len(snapshot) = Len(race_pages[race_cursor])

\* a webhook was handled between the read and the registration of a page, and
\* the pass has finished
C12_Witness ==
    /\ race_pc = "done"
    /\ Len(race_pages) = 2
    /\ ev_pc = "returned"
    /\ Len(ev_calls) = 1
    /\ \E i \in 1..Len(writes) : \E j \in 1..Len(writes) :
          /\ i < j
          /\ writes[i].by = "webhook"
          /\ writes[j].by = "resync"
          /\ writes[j].at < writes[i].at

\* the last write of an issue to the sink, 0 when there is none
LastWrite(id) ==
    LET ks == {k \in 1..Len(writes) : writes[k].id = id}
    IN IF ks = {} THEN 0 ELSE writes[CHOOSE k \in ks : \A l \in ks : l <= k].ver

\* C13: nothing orders the writes of a pass and of a webhook: a batch is
\* registered with the versions read when its page was fetched, a webhook with
\* the version it fetched, and the sink holds for every issue the version
\* written last, also when an earlier write carried a later version.
C13_StaleSnapshotOverwrites ==
    /\ \A id \in Ids : sink[id] = LastWrite(id)
    /\ (race_pc \in {"iterating", "done"} /\ race_emitted # <<>>) =>
          race_emitted[Len(race_emitted)] = snapshot
    /\ \A k \in 1..Len(writes) :
          /\ writes[k].at \in 1..clock
          /\ writes[k].ver <= version[writes[k].id]
          /\ \A l \in 1..Len(writes) :
                (writes[l].id = writes[k].id /\ writes[l].at < writes[k].at)
                    => writes[l].ver <= writes[k].ver
          /\ \A l \in 1..Len(writes) :
                (writes[l].id = writes[k].id /\ writes[l].at = writes[k].at)
                    => writes[l].ver = writes[k].ver

\* the pass read an issue, a webhook then fetched a later version of it and
\* registered it, then the pass registered its older snapshot: the sink ends
\* with the older version
C13_Witness ==
    /\ race_pc = "done"
    /\ \E i \in 1..Len(writes) : \E j \in 1..Len(writes) :
          /\ i < j
          /\ writes[i].by = "webhook"
          /\ writes[j].by = "resync"
          /\ writes[i].id = writes[j].id
          /\ writes[j].at < writes[i].at
          /\ writes[j].ver < writes[i].ver
          /\ sink[writes[j].id] = writes[j].ver
          /\ sink[writes[j].id] < version[writes[j].id]

====
